---- MODULE Spec2Model ----
(***************************************************************************)
(* The camera resource manager (hooks/useCameraManager), its consumers     *)
(* (hooks/useFaceDetection driven by components/WebcamMonitor,             *)
(* hooks/useFaceRegistration, and a component that uses the manager hook   *)
(* directly), the frame loop of the attention monitor, the camera of the   *)
(* identity-verification modal (components/FaceVerification) and the       *)
(* tracking of proctoring violations.                                      *)
(*                                                                         *)
(* The program is single threaded: every action below is one synchronous   *)
(* turn of the event loop (an event handler, an effect, or the code that   *)
(* runs between two awaits).  Awaited promises (getUserMedia, Camera.start,*)
(* FaceMesh.send) are settled by separate actions.                         *)
(***************************************************************************)
EXTENDS Integers, FiniteSets, Sequences, TLC

\* ---------------------------------------------------------------- bounds
\* getUserMedia calls issued in one run (each call k yields stream k or fails)
MaxAcquisitions == 2
\* Camera.start() promises that may be awaited at once by setupFaceMesh calls
MaxStarts == 2
\* where the counters of track stops and of inferences in flight saturate
MaxCount == 2
\* getUserMedia calls the verification modal issues in one run
MaxVerCalls == 3
\* occurrences of one violation kind counted in one session
MaxOccurrences == 3
\* calls of one kind (captures, registration requests) in flight at a time
MaxInFlight == 2

\* ------------------------------------------------------------- vocabulary
Detection == "faceDetection"
Registration == "faceRegistration"
Direct == "directConsumer"

\* One hook instance per consumer; each passes its own fixed id to the manager.
Consumers == {Detection, Registration, Direct}

NoConsumer == "none"
NoStream == 0
StreamIds == 1..MaxAcquisitions

NoError == "none"
InUseError == "Camera is currently in use by another feature"

\* err.name of the rejection of getUserMedia ("TypeError" stands for a
\* rejection that is no DOMException)
ErrNames == {"NotAllowedError", "NotFoundError", "NotReadableError", "AbortError", "TypeError"}
\* the rejections drawn where the kind of the error is not what is checked
CamErrNames == {"NotAllowedError"}

VARIABLES
    currentConsumer,   \* module-level: who is using the camera
    streamInstance,    \* module-level: the leased MediaStream
    gumCalls,          \* getUserMedia calls issued so far
    pending,           \* requestCamera calls awaiting getUserMedia
    acquired,          \* streams the hardware has handed out
    stopCount,         \* per stream: how often its tracks were stopped
    mounted,           \* per hook instance: component is mounted
    isLoading,         \* per hook instance: useState isLoading
    error,             \* per hook instance: useState error
    stream,            \* per hook instance: useState stream
    consumerIdRef,     \* per hook instance: consumerIdRef.current
    effectId,          \* per hook instance: `id` captured by the unmount effect
    isMonitoring,      \* useFaceDetection: useState isMonitoring
    faceMeshRef,       \* useFaceDetection: faceMeshRef.current is set
    cameraRef,         \* useFaceDetection: cameraRef.current
    startsPending,     \* setupFaceMesh calls awaiting cameraRef.current.start()
    isProcessingRef,   \* useFaceDetection: isProcessingRef.current
    inFlight,          \* faceMesh.send() promises not yet settled
    lastTick,          \* what the last onFrame tick did
    libsLoaded,        \* window.FaceMesh and window.Camera are defined
    verShow,           \* FaceVerification: the show prop
    verStreamRef,      \* FaceVerification: streamRef.current
    verCalls,          \* FaceVerification: getUserMedia calls issued so far
    verPending,        \* FaceVerification: initializeCamera calls awaiting getUserMedia
    verAcquired,       \* streams the hardware has handed to the modal
    verStopped,        \* those of them whose tracks were stopped
    verErrorMessage,   \* FaceVerification: useState errorMessage
    verIsCapturing,    \* FaceVerification: useState isCapturing
    verIsVerifying,    \* FaceVerification: useState isVerifying
    verVerified,       \* FaceVerification: useState verified
    verPhase,          \* where the running captureAndVerify call is suspended
    verTimers,         \* setTimeout(onVerificationSuccess) timers not yet fired
    verSucceeded,      \* onVerificationSuccess was invoked
    session,           \* the monitoring session: identifiers and thresholds
    trackState,        \* per frame kind: ViolationTrackState
    occurrenceCount,   \* per kind: occurrences counted in the session
    reportsInFlight,   \* outbound report calls not yet settled
    flowError,         \* an error of the reporter reached its caller
    emitted,           \* what the last tracking operation sent out
    run,               \* a condition held without a break, frame by frame
    capturedImages,    \* useFaceRegistration: number of blobs in capturedImages
    capturesInFlight,  \* captureImage calls suspended in the delay or the capture
    regIsCapturing,    \* useFaceRegistration: useState isCapturing
    regErrorMessage,   \* useFaceRegistration: useState errorMessage
    isRegistering,     \* useFaceRegistration: useState isRegistering
    isComplete,        \* useFaceRegistration: useState isComplete
    postsInFlight,     \* registration requests not yet settled
    lastPost           \* number of images in the last registration request

mgrVars == <<currentConsumer, streamInstance, gumCalls, pending, acquired, stopCount>>
hookVars == <<mounted, isLoading, error, stream, consumerIdRef, effectId>>
detVars == <<isMonitoring, faceMeshRef, cameraRef, startsPending, isProcessingRef, inFlight, lastTick>>
camVars == <<mgrVars, hookVars, detVars, libsLoaded>>
verVars == <<verShow, verStreamRef, verCalls, verPending, verAcquired, verStopped,
             verErrorMessage, verIsCapturing, verIsVerifying, verVerified,
             verPhase, verTimers, verSucceeded>>
violVars == <<session, trackState, occurrenceCount, reportsInFlight, flowError, emitted>>
regVars == <<capturedImages, capturesInFlight, regIsCapturing, regErrorMessage,
             isRegistering, isComplete, postsInFlight, lastPost>>
vars == <<camVars, verVars, violVars, run, regVars>>

\* ------------------------------------------------------------ helpers
Min(a, b) == IF a < b THEN a ELSE b

\* track.stop() on every track of stream s
StopTracks(sc, s) == [sc EXCEPT ![s] = Min(sc[s] + 1, MaxCount)]

LiveStreams == {s \in acquired : stopCount[s] = 0}

PendingOf(h) == {p \in pending : p.hook = h}

\* the message setError receives in the catch block of requestCamera
ErrorMessage(name) ==
    CASE name = "NotAllowedError" -> "Camera access denied."
      [] name = "NotFoundError" -> "No camera detected."
      [] name = "NotReadableError" -> "Camera is already in use."
      [] name = "TypeError" -> "Unable to access camera."
      [] OTHER -> "Camera error"

\* ------------------------------------------------ useCameraManager (pure)
\* The manager's state as one record, so that a handler that makes several
\* manager calls in one turn can thread it through them.  ret is what the
\* last call returned.
Cur ==
    [currentConsumer |-> currentConsumer, streamInstance |-> streamInstance,
     gumCalls |-> gumCalls, pending |-> pending, acquired |-> acquired,
     stopCount |-> stopCount, isLoading |-> isLoading, error |-> error,
     stream |-> stream, consumerIdRef |-> consumerIdRef,
     ret |-> [outcome |-> "none", stream |-> NoStream], releases |-> 0]

Ret(outcome, s) == [outcome |-> outcome, stream |-> s]

\* requestCamera without the check for another owner: it preempts the holder
requestCameraPreempts(S, h, caller, cs) ==
    LET S1 == [S EXCEPT !.consumerIdRef[h] = h] IN
    IF S.currentConsumer = h /\ S.streamInstance # NoStream
    THEN [S1 EXCEPT !.stream[h] = S.streamInstance,
                    !.ret = Ret("same", S.streamInstance)]
    ELSE [S1 EXCEPT !.isLoading[h] = TRUE,
                    !.error[h] = NoError,
                    !.stream[h] = NoStream,
                    !.stopCount = IF S.streamInstance # NoStream
                                  THEN StopTracks(@, S.streamInstance) ELSE @,
                    !.streamInstance = NoStream,
                    !.gumCalls = @ + 1,
                    !.pending = @ \cup {[call |-> S.gumCalls + 1, hook |-> h,
                                         live |-> TRUE, released |-> FALSE,
                                         caller |-> caller, cs |-> cs]},
                    !.ret = Ret("pending", NoStream)]

\* requestCamera without the early return for the current owner: the owner
\* asking again gets a new hardware acquisition
requestCameraAlwaysAcquires(S, h, caller, cs) ==
    LET S1 == [S EXCEPT !.consumerIdRef[h] = h] IN
    IF S.currentConsumer # NoConsumer /\ S.currentConsumer # h
    THEN [S1 EXCEPT !.error[h] = InUseError,
                    !.ret = Ret("rejected", NoStream)]
    ELSE [S1 EXCEPT !.isLoading[h] = TRUE,
                    !.error[h] = NoError,
                    !.stream[h] = NoStream,
                    !.stopCount = IF S.streamInstance # NoStream
                                  THEN StopTracks(@, S.streamInstance) ELSE @,
                    !.streamInstance = NoStream,
                    !.gumCalls = @ + 1,
                    !.pending = @ \cup {[call |-> S.gumCalls + 1, hook |-> h,
                                         live |-> TRUE, released |-> FALSE,
                                         caller |-> caller, cs |-> cs]},
                    !.ret = Ret("pending", NoStream)]

\* requestCamera that turns another consumer away without telling: it
\* returns null and leaves the error state alone
requestCameraRejectsSilently(S, h, caller, cs) ==
    LET S1 == [S EXCEPT !.consumerIdRef[h] = h] IN
    IF S.currentConsumer = h /\ S.streamInstance # NoStream
    THEN [S1 EXCEPT !.stream[h] = S.streamInstance,
                    !.ret = Ret("same", S.streamInstance)]
    ELSE IF S.currentConsumer # NoConsumer /\ S.currentConsumer # h
    THEN [S1 EXCEPT !.ret = Ret("rejected", NoStream)]
    ELSE [S1 EXCEPT !.isLoading[h] = TRUE,
                    !.error[h] = NoError,
                    !.stream[h] = NoStream,
                    !.stopCount = IF S.streamInstance # NoStream
                                  THEN StopTracks(@, S.streamInstance) ELSE @,
                    !.streamInstance = NoStream,
                    !.gumCalls = @ + 1,
                    !.pending = @ \cup {[call |-> S.gumCalls + 1, hook |-> h,
                                         live |-> TRUE, released |-> FALSE,
                                         caller |-> caller, cs |-> cs]},
                    !.ret = Ret("pending", NoStream)]

\* requestCamera(consumerId) up to its await: h is the calling hook instance
\* (its consumerId is h), caller and cs say who awaits the result.
requestCamera(S, h, caller, cs) ==
    LET S1 == [S EXCEPT !.consumerIdRef[h] = h] IN
    IF S.currentConsumer = h /\ S.streamInstance # NoStream
    THEN [S1 EXCEPT !.stream[h] = S.streamInstance,
                    !.ret = Ret("same", S.streamInstance)]
    ELSE IF S.currentConsumer # NoConsumer /\ S.currentConsumer # h
    THEN [S1 EXCEPT !.error[h] = InUseError,
                    !.ret = Ret("rejected", NoStream)]
    ELSE [S1 EXCEPT !.isLoading[h] = TRUE,
                    !.error[h] = NoError,
                    !.stream[h] = NoStream,
                    !.stopCount = IF S.streamInstance # NoStream
                                  THEN StopTracks(@, S.streamInstance) ELSE @,
                    !.streamInstance = NoStream,
                    !.gumCalls = @ + 1,
                    !.pending = @ \cup {[call |-> S.gumCalls + 1, hook |-> h,
                                         live |-> TRUE, released |-> FALSE,
                                         caller |-> caller, cs |-> cs]},
                    !.ret = Ret("pending", NoStream)]

\* requestCamera after `await getUserMedia` resolved with stream p.call.
\* The setters act on the hook instance that made the call, if still mounted.
gumResolved(S, p) ==
    LET h == p.hook
        s == p.call IN
    [S EXCEPT !.streamInstance = s,
              !.currentConsumer = h,
              !.acquired = @ \cup {s},
              !.stream[h] = IF p.live THEN s ELSE @,
              !.isLoading[h] = IF p.live THEN FALSE ELSE @,
              !.pending = @ \ {p},
              !.ret = Ret("granted", s)]

\* a catch block that clears the stream and leaves the owner in place
gumRejectedKeepsOwner(S, p, name) ==
    LET h == p.hook IN
    [S EXCEPT !.streamInstance = NoStream,
              !.error[h] = IF p.live THEN ErrorMessage(name) ELSE @,
              !.isLoading[h] = IF p.live THEN FALSE ELSE @,
              !.stream[h] = IF p.live THEN NoStream ELSE @,
              !.pending = @ \ {p},
              !.ret = Ret("failed", NoStream)]

\* the catch block of requestCamera: getUserMedia rejected with err.name = name
gumRejected(S, p, name) ==
    LET h == p.hook IN
    [S EXCEPT !.streamInstance = NoStream,
              !.currentConsumer = NoConsumer,
              !.error[h] = IF p.live THEN ErrorMessage(name) ELSE @,
              !.isLoading[h] = IF p.live THEN FALSE ELSE @,
              !.stream[h] = IF p.live THEN NoStream ELSE @,
              !.pending = @ \ {p},
              !.ret = Ret("failed", NoStream)]

\* releaseCamera that clears the lease without stopping the tracks
releaseCameraNoStop(S0, h) ==
    LET S == [S0 EXCEPT !.releases = @ + 1] IN
    IF S.currentConsumer = h /\ S.streamInstance # NoStream
    THEN [S EXCEPT !.streamInstance = NoStream,
                   !.currentConsumer = NoConsumer,
                   !.stream[h] = NoStream,
                   !.error[h] = NoError,
                   !.isLoading[h] = FALSE,
                   !.ret = Ret("released", NoStream)]
    ELSE IF S.consumerIdRef[h] = h
    THEN [S EXCEPT !.stream[h] = NoStream,
                   !.error[h] = NoError,
                   !.isLoading[h] = FALSE,
                   !.ret = Ret("noop", NoStream)]
    ELSE [S EXCEPT !.ret = Ret("noop", NoStream)]

\* releaseCamera that does not check who owns the lease
releaseCameraAnyCaller(S0, h) ==
    LET S == [S0 EXCEPT !.releases = @ + 1] IN
    IF S.streamInstance # NoStream
    THEN [S EXCEPT !.stopCount = StopTracks(@, S.streamInstance),
                   !.streamInstance = NoStream,
                   !.currentConsumer = NoConsumer,
                   !.stream[h] = NoStream,
                   !.error[h] = NoError,
                   !.isLoading[h] = FALSE,
                   !.ret = Ret("released", NoStream)]
    ELSE IF S.consumerIdRef[h] = h
    THEN [S EXCEPT !.stream[h] = NoStream,
                   !.error[h] = NoError,
                   !.isLoading[h] = FALSE,
                   !.ret = Ret("noop", NoStream)]
    ELSE [S EXCEPT !.ret = Ret("noop", NoStream)]

\* releaseCamera(consumerId) called on hook instance h with its own id;
\* releases counts the calls made since S was taken
releaseCamera(S0, h) ==
    LET S == [S0 EXCEPT !.releases = @ + 1] IN
    IF S.currentConsumer = h /\ S.streamInstance # NoStream
    THEN [S EXCEPT !.stopCount = StopTracks(@, S.streamInstance),
                   !.streamInstance = NoStream,
                   !.currentConsumer = NoConsumer,
                   !.stream[h] = NoStream,
                   !.error[h] = NoError,
                   !.isLoading[h] = FALSE,
                   !.ret = Ret("released", NoStream)]
    ELSE IF S.consumerIdRef[h] = h
    THEN [S EXCEPT !.stream[h] = NoStream,
                   !.error[h] = NoError,
                   !.isLoading[h] = FALSE,
                   !.ret = Ret("noop", NoStream)]
    ELSE [S EXCEPT !.ret = Ret("noop", NoStream)]

\* history only: a release by h ran while these calls of h awaited the hardware
MarkReleased(P, h) ==
    {IF p.hook = h THEN [p EXCEPT !.released = TRUE] ELSE p : p \in P}

\* the component of h is gone: its pending calls now belong to a dead instance
Orphan(P, h) ==
    {IF p.hook = h THEN [p EXCEPT !.live = FALSE] ELSE p : p \in P}

Commit(S) ==
    /\ S.gumCalls <= MaxAcquisitions
    /\ currentConsumer' = S.currentConsumer
    /\ streamInstance' = S.streamInstance
    /\ gumCalls' = S.gumCalls
    /\ pending' = S.pending
    /\ acquired' = S.acquired
    /\ stopCount' = S.stopCount
    /\ isLoading' = S.isLoading
    /\ error' = S.error
    /\ stream' = S.stream
    /\ consumerIdRef' = S.consumerIdRef

\* ------------------------------------------------ useFaceDetection (pure)
CurDet ==
    [isMonitoring |-> isMonitoring, faceMeshRef |-> faceMeshRef,
     cameraRef |-> cameraRef, startsPending |-> startsPending,
     isProcessingRef |-> isProcessingRef, inFlight |-> inFlight,
     lastTick |-> lastTick]

\* the guard at the top of setupFaceMesh: it returns false at once when the
\* captured cameraStream is null, the video element is gone or the MediaPipe
\* globals are missing
setupGuardFails(cs, video) == cs = NoStream \/ ~video \/ ~libsLoaded

\* setupFaceMesh reaches `await loadMediaPipeScripts()`: past the guard, with
\* a MediaPipe global still missing
lazyLoadReached(cs, video) == ~setupGuardFails(cs, video) /\ ~libsLoaded

\* setupFaceMesh up to `await cameraRef.current.start()`.  cs is the
\* cameraStream its closure captured, video says videoRef.current is set.
setupFaceMesh(D, cs, video) ==
    IF setupGuardFails(cs, video)
    THEN D
    ELSE [D EXCEPT !.faceMeshRef = TRUE,
                   !.cameraRef = "starting",
                   !.startsPending = @ + 1]

\* onFrame without the isProcessingRef guard
onFrameNoGuard(D, video, ready) ==
    IF video /\ ready /\ D.faceMeshRef
    THEN [D EXCEPT !.isProcessingRef = TRUE,
                   !.inFlight = Min(@ + 1, MaxCount),
                   !.lastTick = "sent"]
    ELSE [D EXCEPT !.lastTick = "skipped"]

\* the onFrame callback given to Camera; ready is videoRef.current.readyState >= 2
onFrame(D, video, ready) ==
    IF ~D.isProcessingRef /\ video /\ ready /\ D.faceMeshRef
    THEN [D EXCEPT !.isProcessingRef = TRUE,
                   !.inFlight = Min(@ + 1, MaxCount),
                   !.lastTick = "sent"]
    ELSE [D EXCEPT !.lastTick = "skipped"]

\* onFrame without its finally block: the marker stays set
sendSettledKeepsMarker(D) ==
    [D EXCEPT !.inFlight = @ - 1]

\* faceMesh.send settled (resolved or threw): the finally block of onFrame
sendSettled(D) ==
    [D EXCEPT !.isProcessingRef = FALSE, !.inFlight = @ - 1]

\* cameraRef.current.start() settled for one awaiting setupFaceMesh call:
\* setIsMonitoring(true) after the await, setIsMonitoring(false) in the catch
cameraStartSettled(D, ok) ==
    [D EXCEPT !.startsPending = @ - 1,
              !.isMonitoring = ok,
              !.cameraRef = IF @ = "starting"
                            THEN (IF ok THEN "running" ELSE "dead")
                            ELSE @]

\* the cleanup of useFaceDetection's unmount effect, before releaseCamera
stopCamera(D) ==
    [D EXCEPT !.cameraRef = "none"]

CommitDet(D) ==
    /\ D.startsPending <= MaxStarts
    /\ isMonitoring' = D.isMonitoring
    /\ faceMeshRef' = D.faceMeshRef
    /\ cameraRef' = D.cameraRef
    /\ startsPending' = D.startsPending
    /\ isProcessingRef' = D.isProcessingRef
    /\ inFlight' = D.inFlight
    /\ lastTick' = D.lastTick

\* a fresh instance of the hook: useState(false), useRef(null), useRef(false)
FreshDet ==
    [isMonitoring |-> FALSE, faceMeshRef |-> FALSE, cameraRef |-> "none",
     startsPending |-> 0, isProcessingRef |-> FALSE, inFlight |-> 0,
     lastTick |-> "none"]

\* startMonitoring called on the monitor, up to its first pending await: the
\* manager state (mgr) and the detection state (det) after the turn.  Its
\* closure holds the rendered isMonitoring and, through setupFaceMesh, the
\* rendered cameraStream.  A requestCamera that returns at once is followed
\* by setupFaceMesh in the same turn.
startMonitoring(S, D) ==
    IF D.isMonitoring
    THEN [mgr |-> S, det |-> D]
    ELSE LET S1 == requestCamera(S, Detection, "startMonitoring", S.stream[Detection]) IN
         [mgr |-> S1,
          det |-> IF S1.ret.outcome = "same"
                  THEN setupFaceMesh(D, S.stream[Detection], TRUE)
                  ELSE D]

\* ------------------------------------------- WebcamMonitor (pure)
\* What the identity of startMonitoring depends on: its useCallback
\* dependencies isMonitoring and, through setupFaceMesh, cameraStream.
\* WebcamMonitor's effect has startMonitoring as its only dependency, so it
\* runs again after every render in which one of the two changed.
EffectDeps(S, D) == <<D.isMonitoring, S.stream[Detection]>>

\* The renders that follow a turn, with the runs of WebcamMonitor's effect
\* they cause: deps are the dependencies of the previous render, R the state
\* to render.  Each run calls the startMonitoring of the new render, whose
\* state changes are rendered in turn.  attempts counts the runs that got
\* past the isMonitoring test of startMonitoring.
RECURSIVE runEffect(_, _)
runEffect(deps, R) ==
    IF EffectDeps(R.mgr, R.det) = deps
    THEN R
    ELSE LET Q == startMonitoring(R.mgr, R.det) IN
         runEffect(EffectDeps(R.mgr, R.det),
                   [mgr |-> Q.mgr, det |-> Q.det,
                    attempts |-> IF R.det.isMonitoring
                                 THEN R.attempts ELSE R.attempts + 1])

\* a WebcamMonitor whose effect runs on mount only
renderedMountOnly(S0, D0, S, D, m) ==
    [mgr |-> S, det |-> D, attempts |-> 0]

\* The state after a turn that took the manager and the monitor from
\* (S0, D0) to (S, D), once React has rendered it and run the effects; m
\* says that WebcamMonitor is mounted.
rendered(S0, D0, S, D, m) ==
    IF m
    THEN runEffect(EffectDeps(S0, D0), [mgr |-> S, det |-> D, attempts |-> 0])
    ELSE [mgr |-> S, det |-> D, attempts |-> 0]

\* the turn in which getUserMedia resolves for the pending call p: the rest
\* of requestCamera, then the caller that awaited it (startMonitoring goes on
\* to the setupFaceMesh of its closure), then the render
gumResolveTurn(S, D, p, m) ==
    rendered(S, D, gumResolved(S, p),
             IF p.caller = "startMonitoring"
             THEN setupFaceMesh(D, p.cs, p.live) ELSE D, m)

\* the turn in which getUserMedia rejects for the pending call p:
\* the catch block of requestCamera; startMonitoring returns false
gumRejectTurn(S, D, p, name, m) ==
    rendered(S, D, gumRejected(S, p, name), D, m)

\* the turn in which Camera.start() settles
cameraStartTurn(S, D, ok, m) ==
    rendered(S, D, S, cameraStartSettled(D, ok), m)

\* "Retry Camera Access" clicked: onClick={startMonitoring}
retryClick(S, D) ==
    LET R == startMonitoring(S, D) IN rendered(S, D, R.mgr, R.det, TRUE)

\* ------------------------------------------- FaceVerification (pure)
NoVerStream == 0

\* the modal's camera state as one record
CurVer ==
    [show |-> verShow, streamRef |-> verStreamRef, calls |-> verCalls,
     pending |-> verPending, acquired |-> verAcquired, stopped |-> verStopped,
     errorMessage |-> verErrorMessage, isCapturing |-> verIsCapturing,
     isVerifying |-> verIsVerifying, verified |-> verVerified,
     phase |-> verPhase, timers |-> verTimers, succeeded |-> verSucceeded]

\* the message setErrorMessage receives in the outer catch of initializeCamera
VerErrorMessage(name) ==
    CASE name = "NotAllowedError" -> "Camera access denied. Please grant camera permissions and refresh the page."
      [] name = "NotFoundError" -> "No camera detected. Please connect a camera and try again."
      [] name = "NotReadableError" -> "Camera is already in use by another application."
      [] name = "TypeError" -> "Unable to access camera. Please ensure camera permissions are granted."
      [] OTHER -> "Camera error"

\* initializeCamera up to its first await: getUserMedia with the ideal
\* constraints, called on navigator.mediaDevices directly
initializeCamera(F) ==
    [F EXCEPT !.errorMessage = NoError,
              !.calls = @ + 1,
              !.pending = @ \cup {[call |-> F.calls + 1, basic |-> FALSE]}]

\* initializeCamera after getUserMedia resolved (either attempt)
verGumResolved(F, p) ==
    [F EXCEPT !.acquired = @ \cup {p.call},
              !.streamRef = p.call,
              !.pending = @ \ {p}]

\* initializeCamera after getUserMedia rejected: the ideal attempt falls back
\* to { video: true }, the basic attempt reaches the outer catch
verGumRejected(F, p, name) ==
    IF ~p.basic
    THEN [F EXCEPT !.calls = @ + 1,
                   !.pending = (@ \ {p}) \cup {[call |-> F.calls + 1, basic |-> TRUE]}]
    ELSE [F EXCEPT !.errorMessage = VerErrorMessage(name),
                   !.pending = @ \ {p}]

\* the cleanup of the [show] effect
verCleanup(F) ==
    IF F.streamRef # NoVerStream
    THEN [F EXCEPT !.stopped = @ \cup {F.streamRef},
                   !.streamRef = NoVerStream]
    ELSE F

\* handleRetry
handleRetry(F) ==
    initializeCamera([F EXCEPT !.errorMessage = NoError, !.verified = FALSE])

\* the disabled attribute of the Verify button, which is rendered only while
\* verified is false; videoRef.current is set while the modal body is shown
verifyDisabled(F) ==
    F.isCapturing \/ F.isVerifying \/ ~F.show \/ F.errorMessage # NoError

\* the name the account is registered under (the userName prop) and the names
\* the recognition service may answer with
ExpectedName == "Alice"
Names == {"Alice", "alice", "ALICE", "Bob"}

\* String.prototype.toLowerCase on these names
toLowerCase(n) ==
    CASE n = "Alice" -> "alice"
      [] n = "ALICE" -> "alice"
      [] n = "Bob" -> "bob"
      [] OTHER -> n

\* CONFIDENCE_THRESHOLD of verifyFaceIdentity (0.7), in hundredths
CONFIDENCE_THRESHOLD == 70
Confidences == {0, 69, 70, 95}

\* the first item of the body of POST /recognition; id 0 is a missing id
RecognitionData == [id : {0, 7}, confidence : Confidences, name : Names]
\* the outcome of the POST: a body, or a rejection
HttpResults ==
    {[ok |-> TRUE, data |-> d] : d \in RecognitionData}
        \cup {[ok |-> FALSE, data |-> [id |-> 0, confidence |-> 0, name |-> "Bob"]]}

\* what verifyFaceIdentity throws: Error("Failed to verify face identity")
Thrown ==
    [thrown |-> TRUE, id |-> 0, confidence |-> 0, name |-> "",
     verified |-> FALSE, nameMatches |-> FALSE]

\* a verifyFaceIdentity that does not compare the names
verifyFaceIdentityAnyName(res, expectedName) ==
    IF ~res.ok THEN Thrown
    ELSE [thrown |-> FALSE, id |-> res.data.id,
          confidence |-> res.data.confidence, name |-> res.data.name,
          verified |-> res.data.confidence >= CONFIDENCE_THRESHOLD,
          nameMatches |-> toLowerCase(res.data.name) = toLowerCase(expectedName)]

\* studentService.verifyFaceIdentity
verifyFaceIdentity(res, expectedName) ==
    IF ~res.ok THEN Thrown
    ELSE LET nameMatches == toLowerCase(res.data.name) = toLowerCase(expectedName) IN
         [thrown |-> FALSE, id |-> res.data.id,
          confidence |-> res.data.confidence, name |-> res.data.name,
          verified |-> res.data.confidence >= CONFIDENCE_THRESHOLD /\ nameMatches,
          nameMatches |-> nameMatches]

VerificationFailed == "Verification failed. Please try again or contact support."
NoMatchingFace == "No matching face found in our system. Please try again or contact support."
IdentityMismatch == "Verification failed - identity mismatch."
ConfidenceTooLow == "Verification failed - confidence level too low."

\* the finally block of captureAndVerify
verFinally(F) == [F EXCEPT !.isVerifying = FALSE, !.phase = "idle"]

\* captureAndVerify up to its first await (the 300 ms delay and the capture)
captureAndVerify(F) == [F EXCEPT !.isCapturing = TRUE, !.phase = "capture"]

\* captureAndVerify after the delay and captureImageAsBlob: with the blob it
\* goes on to the request, an exception goes to the catch and the finally
captured(F, ok) ==
    IF ok
    THEN [F EXCEPT !.isCapturing = FALSE, !.isVerifying = TRUE, !.phase = "request"]
    ELSE verFinally([F EXCEPT !.errorMessage = VerificationFailed])

\* captureAndVerify after verifyFaceIdentity settled with response
responded(F, response) ==
    verFinally(
        IF response.thrown THEN [F EXCEPT !.errorMessage = VerificationFailed]
        ELSE IF response.id = 0 THEN [F EXCEPT !.errorMessage = NoMatchingFace]
        ELSE IF response.verified
             THEN [F EXCEPT !.verified = TRUE, !.timers = @ + 1]
        ELSE IF ~response.nameMatches THEN [F EXCEPT !.errorMessage = IdentityMismatch]
        ELSE IF response.confidence # 0 THEN [F EXCEPT !.errorMessage = ConfidenceTooLow]
        ELSE [F EXCEPT !.errorMessage = VerificationFailed])

\* the 1500 ms timer of a successful run fires
successTimer(F) == [F EXCEPT !.timers = @ - 1, !.succeeded = TRUE]

CommitVer(F) ==
    /\ F.calls <= MaxVerCalls
    /\ verShow' = F.show
    /\ verStreamRef' = F.streamRef
    /\ verCalls' = F.calls
    /\ verPending' = F.pending
    /\ verAcquired' = F.acquired
    /\ verStopped' = F.stopped
    /\ verErrorMessage' = F.errorMessage
    /\ verIsCapturing' = F.isCapturing
    /\ verIsVerifying' = F.isVerifying
    /\ verVerified' = F.verified
    /\ verPhase' = F.phase
    /\ verTimers' = F.timers
    /\ verSucceeded' = F.succeeded

\* streams the modal obtained whose tracks were not stopped
VerLive == verAcquired \ verStopped

\* ------------------------------------------ useFaceRegistration (pure)
REQUIRED_IMAGES == 3
NoPost == 0 - 1

CameraNotReady == "Camera not ready. Please wait."
CaptureFailed == "Failed to capture image. Please try again."
CaptureAllFirst == "Please capture all 3 images before submitting"
RegistrationFailed == "Face registration failed. Please try again."

\* the registration state of the hook instance as one record
CurReg ==
    [capturedImages |-> capturedImages, capturesInFlight |-> capturesInFlight,
     isCapturing |-> regIsCapturing, errorMessage |-> regErrorMessage,
     isRegistering |-> isRegistering, isComplete |-> isComplete,
     postsInFlight |-> postsInFlight, lastPost |-> lastPost]

\* the useState initial values of a new instance
FreshReg ==
    [capturedImages |-> 0, capturesInFlight |-> 0, isCapturing |-> FALSE,
     errorMessage |-> NoError, isRegistering |-> FALSE, isComplete |-> FALSE,
     postsInFlight |-> 0, lastPost |-> NoPost]

\* captureImage up to its first await; the closure is the one of the last
\* render, ready stands for videoRef.current with readyState >= 2
captureImage(R, cameraStream, ready) ==
    IF ~ready \/ cameraStream = NoStream \/ R.capturedImages >= REQUIRED_IMAGES
    THEN [R EXCEPT !.errorMessage = CameraNotReady]
    ELSE [R EXCEPT !.isCapturing = TRUE, !.capturesInFlight = @ + 1]

\* captureImage after the delay and captureImageAsBlob: the functional
\* update appends the blob to whatever the list holds by then
captureDone(R, ok) ==
    [R EXCEPT !.capturedImages = IF ok THEN @ + 1 ELSE @,
              !.errorMessage = IF ok THEN @ ELSE CaptureFailed,
              !.isCapturing = FALSE,
              !.capturesInFlight = @ - 1]

\* resetCapture
resetCapture(R) ==
    [R EXCEPT !.capturedImages = 0, !.errorMessage = NoError, !.isComplete = FALSE]

\* submitRegistration up to the await of axios.post
submitRegistration(R, hasUser) ==
    IF R.capturedImages # REQUIRED_IMAGES \/ ~hasUser
    THEN [R EXCEPT !.errorMessage = CaptureAllFirst]
    ELSE [R EXCEPT !.isRegistering = TRUE,
                   !.postsInFlight = @ + 1,
                   !.lastPost = R.capturedImages]

\* the outcomes of the POST: status 200, another status, a rejection
PostOutcomes == {"200", "other", "throws"}

\* submitRegistration after axios.post settled, the release of the camera
\* on status 200 aside
registered(R, outcome) ==
    LET G == CASE outcome = "200" -> [R EXCEPT !.isComplete = TRUE]
               [] outcome = "other" -> resetCapture(R)
               [] OTHER -> [R EXCEPT !.errorMessage = RegistrationFailed]
    IN [G EXCEPT !.isRegistering = FALSE, !.postsInFlight = @ - 1]

CommitReg(R) ==
    /\ R.capturesInFlight <= MaxInFlight
    /\ R.postsInFlight <= MaxInFlight
    /\ capturedImages' = R.capturedImages
    /\ capturesInFlight' = R.capturesInFlight
    /\ regIsCapturing' = R.isCapturing
    /\ regErrorMessage' = R.errorMessage
    /\ isRegistering' = R.isRegistering
    /\ isComplete' = R.isComplete
    /\ postsInFlight' = R.postsInFlight
    /\ lastPost' = R.lastPost

\* ------------------------------------------ violation tracking (pure)
FaceNotDetected == "FACE_NOT_DETECTED"
MultipleFaces == "MULTIPLE_FACES"
LookingAway == "LOOKING_AWAY"
TabSwitching == "TAB_SWITCHING"

Kinds == {FaceNotDetected, MultipleFaces, LookingAway, TabSwitching}
\* the kinds whose condition is computed from a frame
FrameKinds == {FaceNotDetected, MultipleFaces, LookingAway}

LOOKING_AWAY_DURATION_MS == 1000
COOLDOWN_PERIOD_MS == 10000
MAX_FACES_ALLOWED == 1

\* a FrameObservation: the number of faces and, with a face in view, whether
\* its head pose or gaze is beyond the thresholds
Observations ==
    {o \in [faceCount : 0..(MAX_FACES_ALLOWED + 1), away : BOOLEAN] :
        o.away => o.faceCount > 0}

\* time between two frames, in ms
FrameGapsMs == {500, 1000}

\* "condition active this frame"
conditionActive(kind, obs) ==
    CASE kind = FaceNotDetected -> obs.faceCount = 0
      [] kind = MultipleFaces -> obs.faceCount > MAX_FACES_ALLOWED
      [] kind = LookingAway -> obs.faceCount > 0 /\ obs.away
      [] OTHER -> FALSE

\* ViolationTrackState of one kind.  activeMs is consecutiveActiveDurationMs;
\* sinceReportMs is the time since lastReportedAt, counted up to the cooldown
\* window and equal to it when nothing was reported yet.
FreshTrack ==
    [state |-> "INACTIVE", activeMs |-> 0, sinceReportMs |-> COOLDOWN_PERIOD_MS]

\* gap ms pass
elapse(T, gap) ==
    [T EXCEPT !.activeMs = IF T.state = "ACCUMULATING"
                           THEN Min(@ + gap, LOOKING_AWAY_DURATION_MS) ELSE 0,
              !.sinceReportMs = Min(@ + gap, COOLDOWN_PERIOD_MS)]

\* a cooldown that ends as soon as the next frame arrives
leaveCooldownAtOnce(T) ==
    IF T.state = "COOLDOWN"
    THEN [T EXCEPT !.state = "INACTIVE"]
    ELSE T

\* COOLDOWN -> INACTIVE after the cooldown window, whatever the condition
leaveCooldown(T) ==
    IF T.state = "COOLDOWN" /\ T.sinceReportMs >= COOLDOWN_PERIOD_MS
    THEN [T EXCEPT !.state = "INACTIVE"]
    ELSE T

\* the transitions without the debounce: an active condition is confirmed on
\* its first frame
observeNoDebounce(T, active) ==
    CASE T.state = "INACTIVE" /\ active ->
            [T EXCEPT !.state = "CONFIRMED", !.activeMs = 0]
      [] T.state = "ACCUMULATING" /\ ~active ->
            [T EXCEPT !.state = "INACTIVE", !.activeMs = 0]
      [] T.state = "ACCUMULATING" /\ active ->
            [T EXCEPT !.state = "CONFIRMED"]
      [] OTHER -> T

\* INACTIVE -> ACCUMULATING, ACCUMULATING -> INACTIVE, ACCUMULATING -> CONFIRMED
observe(T, active) ==
    CASE T.state = "INACTIVE" /\ active ->
            [T EXCEPT !.state = "ACCUMULATING", !.activeMs = 0]
      [] T.state = "ACCUMULATING" /\ ~active ->
            [T EXCEPT !.state = "INACTIVE", !.activeMs = 0]
      [] T.state = "ACCUMULATING" /\ active
            /\ T.activeMs >= LOOKING_AWAY_DURATION_MS ->
            [T EXCEPT !.state = "CONFIRMED"]
      [] OTHER -> T

\* a confirmation that goes straight back to INACTIVE
confirmSkipsCooldown(T) ==
    IF T.state = "CONFIRMED"
    THEN [T EXCEPT !.state = "INACTIVE", !.activeMs = 0, !.sinceReportMs = 0]
    ELSE T

\* CONFIRMED -> COOLDOWN (the report is sent by the caller)
confirm(T) ==
    IF T.state = "CONFIRMED"
    THEN [T EXCEPT !.state = "COOLDOWN", !.activeMs = 0, !.sinceReportMs = 0]
    ELSE T

\* the state machine of one kind on one frame, gap ms after the last one
engineStep(T, active, gap) ==
    LET T1 == observe(leaveCooldown(elapse(T, gap)), active)
    IN [track |-> confirm(T1), confirmed |-> T1.state = "CONFIRMED"]

\* no monitoring session
NoSession ==
    [active |-> FALSE, attemptId |-> "", assessmentId |-> "",
     thresholds |-> [k \in Kinds |-> 0]]

\* the options a session is started with: identifiers and thresholds
SessionOptions ==
    {[active |-> TRUE, attemptId |-> "attempt-1", assessmentId |-> "assessment-1",
      thresholds |-> [k \in Kinds |-> 2]],
     [active |-> TRUE, attemptId |-> "attempt-2", assessmentId |-> "assessment-2",
      thresholds |-> [k \in Kinds |-> IF k = FaceNotDetected THEN 2 ELSE 3]]}

\* the tracking state as one record; emitted is what the last operation sent
\* out, in order
CurViol ==
    [session |-> session, track |-> trackState, occurrenceCount |-> occurrenceCount,
     reportsInFlight |-> reportsInFlight, flowError |-> flowError,
     emitted |-> <<>>]

Event(V, ev, kind) ==
    [ev |-> ev, kind |-> kind, attemptId |-> V.session.attemptId,
     assessmentId |-> V.session.assessmentId]

\* how many events ev of kind the sequence holds
RECURSIVE Count(_, _, _)
Count(events, ev, kind) ==
    IF events = <<>>
    THEN 0
    ELSE (IF Head(events).ev = ev /\ Head(events).kind = kind THEN 1 ELSE 0)
         + Count(Tail(events), ev, kind)

\* a reporter that leaves the host callback to the acknowledgement
reportWithoutCallback(V, kind) ==
    [V EXCEPT !.emitted = @ \o <<Event(V, "report", kind)>>,
              !.reportsInFlight = Min(@ + 1, MaxCount)]

\* report(kind): the record goes out to the collaborator and the host
\* callback is called before report returns
report(V, kind) ==
    [V EXCEPT !.emitted = @ \o <<Event(V, "report", kind), Event(V, "callback", kind)>>,
              !.reportsInFlight = Min(@ + 1, MaxCount)]

\* one kind's check on one frame
frameKind(V, kind, obs, gap) ==
    LET E == engineStep(V.track[kind], conditionActive(kind, obs), gap)
        V1 == [V EXCEPT !.track[kind] = E.track]
    IN IF E.confirmed THEN report(V1, kind) ELSE V1

\* the heuristics engine on one FrameObservation
frame(V, obs, gap) ==
    frameKind(frameKind(frameKind(V, FaceNotDetected, obs, gap),
                        MultipleFaces, obs, gap),
              LookingAway, obs, gap)

\* a tracking operation that logs every occurrence as tab switching
trackMislabelled(V, kind) ==
    LET n == V.occurrenceCount[kind] + 1
        V1 == [V EXCEPT !.occurrenceCount[kind] = n,
                        !.emitted = @ \o <<Event(V, "log", TabSwitching)>>,
                        !.reportsInFlight = Min(@ + 1, MaxCount)]
    IN IF n = V.session.thresholds[kind]
       THEN [V1 EXCEPT !.emitted = @ \o <<Event(V, "exceed", kind)>>]
       ELSE V1

\* a tracking operation that escalates on every occurrence at or above the
\* threshold
trackEscalatesAbove(V, kind) ==
    LET n == V.occurrenceCount[kind] + 1
        V1 == [V EXCEPT !.occurrenceCount[kind] = n,
                        !.emitted = @ \o <<Event(V, "log", kind)>>,
                        !.reportsInFlight = Min(@ + 1, MaxCount)]
    IN IF n >= V.session.thresholds[kind]
       THEN [V1 EXCEPT !.emitted = @ \o <<Event(V, "exceed", kind)>>]
       ELSE V1

\* trackTabSwitching / trackFaceNotDetected / trackMultipleFaces /
\* trackLookingAway: count the occurrence, log it, escalate when the count
\* reaches the threshold
trackActivity(V, kind) ==
    LET n == V.occurrenceCount[kind] + 1
        V1 == [V EXCEPT !.occurrenceCount[kind] = n,
                        !.emitted = @ \o <<Event(V, "log", kind)>>,
                        !.reportsInFlight = Min(@ + 1, MaxCount)]
    IN IF n = V.session.thresholds[kind]
       THEN [V1 EXCEPT !.emitted = @ \o <<Event(V, "exceed", kind)>>]
       ELSE V1

\* a reset of one kind that clears every kind
resetActivityCounterClearsAll(V, kind) ==
    [V EXCEPT !.occurrenceCount = [k \in Kinds |-> 0],
              !.track = [k \in FrameKinds |-> FreshTrack]]

\* resetActivityCounter(kind)
resetActivityCounter(V, kind) ==
    [V EXCEPT !.occurrenceCount[kind] = 0,
              !.track = [k \in FrameKinds |-> IF k = kind THEN FreshTrack ELSE @[k]]]

\* a reset of all counters that leaves the frame kinds alone
resetAllCountersTabOnly(V) ==
    [V EXCEPT !.occurrenceCount[TabSwitching] = 0]

\* resetAllCounters()
resetAllCounters(V) ==
    [V EXCEPT !.occurrenceCount = [k \in Kinds |-> 0],
              !.track = [k \in FrameKinds |-> FreshTrack]]

\* studentService.submitWebcamMonitorEvent: the promise it returns
submitWebcamMonitorEvent(ok) == IF ok THEN "resolved" ELSE "rejected"

\* a reporter that lets the rejection out
reportSettledRethrows(V, outcome) ==
    [V EXCEPT !.reportsInFlight = @ - 1,
              !.flowError = @ \/ outcome = "rejected",
              !.emitted = <<Event(V, outcome, "")>>]

\* the outbound call of a report settled: a rejection is logged and dropped
reportSettled(V, outcome) ==
    [V EXCEPT !.reportsInFlight = @ - 1,
              !.emitted = <<Event(V, outcome, "")>>]

\* n calls of the tracking operation of kind, one after the other
RECURSIVE trackTimes(_, _, _)
trackTimes(V, kind, n) ==
    IF n = 0 THEN V ELSE trackTimes(trackActivity(V, kind), kind, n - 1)

CommitViol(V) ==
    /\ session' = V.session
    /\ trackState' = V.track
    /\ occurrenceCount' = V.occurrenceCount
    /\ reportsInFlight' = V.reportsInFlight
    /\ flowError' = V.flowError
    /\ emitted' = V.emitted

\* a condition held from the first frame on: no run yet
NoRun ==
    [started |-> FALSE, kind |-> "", gap |-> 0, elapsedMs |-> 0,
     track |-> FreshTrack, reports |-> 0]

\* the length of the run: three cooldown windows
RunTotalMs == 3 * COOLDOWN_PERIOD_MS

\* frame intervals of the runs
RunGapsMs == {250, 500, 1000}

\* the first frame of a run, at time 0, shows the condition
startRun(kind, gap) ==
    LET E == engineStep(FreshTrack, TRUE, 0)
    IN [started |-> TRUE, kind |-> kind, gap |-> gap, elapsedMs |-> 0,
        track |-> E.track, reports |-> IF E.confirmed THEN 1 ELSE 0]

\* the next frame of the run; obs shows the condition of the run's kind
holdFrame(r, obs) ==
    LET E == engineStep(r.track, conditionActive(r.kind, obs), r.gap)
    IN [r EXCEPT !.elapsedMs = @ + r.gap,
                 !.track = E.track,
                 !.reports = @ + (IF E.confirmed THEN 1 ELSE 0)]

\* ------------------------------------------------------------------ Init
Init ==
    /\ currentConsumer = NoConsumer
    /\ streamInstance = NoStream
    /\ gumCalls = 0
    /\ pending = {}
    /\ acquired = {}
    /\ stopCount = [s \in StreamIds |-> 0]
    /\ mounted = [h \in Consumers |-> FALSE]
    /\ isLoading = [h \in Consumers |-> FALSE]
    /\ error = [h \in Consumers |-> NoError]
    /\ stream = [h \in Consumers |-> NoStream]
    /\ consumerIdRef = [h \in Consumers |-> NoConsumer]
    /\ effectId = [h \in Consumers |-> NoConsumer]
    /\ isMonitoring = FALSE
    /\ faceMeshRef = FALSE
    /\ cameraRef = "none"
    /\ startsPending = 0
    /\ isProcessingRef = FALSE
    /\ inFlight = 0
    /\ lastTick = "none"
    /\ libsLoaded \in BOOLEAN
    /\ verShow = FALSE
    /\ verStreamRef = NoVerStream
    /\ verCalls = 0
    /\ verPending = {}
    /\ verAcquired = {}
    /\ verStopped = {}
    /\ verErrorMessage = NoError
    /\ verIsCapturing = FALSE
    /\ verIsVerifying = FALSE
    /\ verVerified = FALSE
    /\ verPhase = "idle"
    /\ verTimers = 0
    /\ verSucceeded = FALSE
    /\ session = NoSession
    /\ trackState = [k \in FrameKinds |-> FreshTrack]
    /\ occurrenceCount = [k \in Kinds |-> 0]
    /\ reportsInFlight = 0
    /\ flowError = FALSE
    /\ emitted = <<>>
    /\ run = NoRun
    /\ capturedImages = FreshReg.capturedImages
    /\ capturesInFlight = FreshReg.capturesInFlight
    /\ regIsCapturing = FreshReg.isCapturing
    /\ regErrorMessage = FreshReg.errorMessage
    /\ isRegistering = FreshReg.isRegistering
    /\ isComplete = FreshReg.isComplete
    /\ postsInFlight = FreshReg.postsInFlight
    /\ lastPost = FreshReg.lastPost

\* --------------------------------------------------- mount and unmount
IsConsumerWithCleanup(h) == h \in {Detection, Registration}

\* The component of hook instance h mounts: useState/useRef initial values,
\* then the effects in order.  The manager's unmount effect captures
\* consumerIdRef.current (effectId), then the consumer's own mount effect
\* runs: useFaceRegistration requests the camera, WebcamMonitor calls
\* startMonitoring (and again after the renders it causes), the direct
\* consumer does nothing.
mount(S, D, h) ==
    LET S0 == [S EXCEPT !.consumerIdRef[h] = NoConsumer,
                        !.isLoading[h] = FALSE,
                        !.error[h] = NoError,
                        !.stream[h] = S.streamInstance]
        M == startMonitoring(S0, FreshDet)
        R == IF h = Detection THEN rendered(S0, FreshDet, M.mgr, M.det, TRUE)
             ELSE IF h = Registration
             THEN [mgr |-> requestCamera(S0, h, "caller", NoStream), det |-> D]
             ELSE [mgr |-> S0, det |-> D]
    IN [mgr |-> R.mgr, det |-> R.det, effectId |-> S0.consumerIdRef[h]]

\* the cleanup of useFaceDetection with the release ahead of the Camera stop
teardownStepsReleaseFirst(h, id) ==
    (IF id # NoConsumer THEN <<"managerRelease">> ELSE <<>>)
    \o (IF h = Detection THEN <<"releaseCamera", "stopCamera", "setIsMonitoring">>
        ELSE IF h = Registration THEN <<"releaseCamera">>
        ELSE <<>>)

\* The statements of the effect cleanups of h's component, in the order they
\* run at unmount: the manager's effect is declared before the consumer's.
teardownSteps(h, id) ==
    (IF id # NoConsumer THEN <<"managerRelease">> ELSE <<>>)
    \o (IF h = Detection THEN <<"stopCamera", "releaseCamera", "setIsMonitoring">>
        ELSE IF h = Registration THEN <<"releaseCamera">>
        ELSE <<>>)

\* one statement of the cleanups, on R = [mgr, det]
teardownStep(R, h, id, step) ==
    CASE step = "managerRelease" -> [R EXCEPT !.mgr = releaseCamera(@, id)]
      [] step = "releaseCamera" -> [R EXCEPT !.mgr = releaseCamera(@, h)]
      [] step = "stopCamera" -> [R EXCEPT !.det = stopCamera(@)]
      [] step = "setIsMonitoring" -> [R EXCEPT !.det.isMonitoring = FALSE]

RECURSIVE teardownRun(_, _, _, _)
teardownRun(R, h, id, steps) ==
    IF steps = <<>>
    THEN R
    ELSE teardownRun(teardownStep(R, h, id, Head(steps)), h, id, Tail(steps))

\* The component of h unmounts.  The manager's effect cleanup releases the
\* id it captured, if any; then the consumer's own cleanup runs
\* (useFaceDetection: stop the Camera, releaseCamera(hookId),
\* setIsMonitoring(false); useFaceRegistration: releaseCamera(hookId)).
\* id is the id the manager's effect captured.
teardown(S, D, h, id) ==
    teardownRun([mgr |-> S, det |-> D], h, id, teardownSteps(h, id))

\* --------------------------------------------------------------- actions
Mount(h) ==
    /\ ~mounted[h]
    /\ LET R == mount(Cur, CurDet, h)
       IN /\ Commit(R.mgr)
          /\ CommitDet(R.det)
          /\ effectId' = [effectId EXCEPT ![h] = R.effectId]
    /\ mounted' = [mounted EXCEPT ![h] = TRUE]
    /\ CommitReg(IF h = Registration THEN FreshReg ELSE CurReg)
    /\ UNCHANGED libsLoaded
    /\ UNCHANGED <<verVars, violVars, run>>

\* After the teardown the instance and its state are gone: its pending
\* calls belong to a dead instance, a later mount starts from fresh state.
Unmount(h) ==
    /\ mounted[h]
    /\ LET R == teardown(Cur, CurDet, h, effectId[h])
           S3 == [R.mgr EXCEPT !.isLoading[h] = FALSE,
                               !.error[h] = NoError,
                               !.stream[h] = NoStream,
                               !.consumerIdRef[h] = NoConsumer,
                               !.pending = Orphan(IF R.mgr.releases > 0
                                                  THEN MarkReleased(@, h) ELSE @, h)]
       IN /\ Commit(S3)
          /\ CommitDet(IF h = Detection THEN FreshDet ELSE R.det)
    /\ mounted' = [mounted EXCEPT ![h] = FALSE]
    /\ effectId' = [effectId EXCEPT ![h] = NoConsumer]
    /\ UNCHANGED libsLoaded
    /\ UNCHANGED <<verVars, violVars, run>>
    /\ CommitReg(IF h = Registration THEN FreshReg ELSE CurReg)

\* requestCamera called through the function the hook returns
RequestCameraCall(h) ==
    /\ mounted[h]
    /\ LET R == rendered(Cur, CurDet, requestCamera(Cur, h, "caller", NoStream),
                         CurDet, mounted[Detection])
       IN /\ Commit(R.mgr)
          /\ CommitDet(R.det)
    /\ UNCHANGED <<mounted, effectId, libsLoaded>>
    /\ UNCHANGED <<verVars, violVars, run, regVars>>

\* releaseCamera called through the function the hook returns (and by
\* submitRegistration after a successful registration)
ReleaseCameraCall(h) ==
    /\ mounted[h]
    /\ LET R == rendered(Cur, CurDet,
                         [releaseCamera(Cur, h) EXCEPT !.pending = MarkReleased(@, h)],
                         CurDet, mounted[Detection])
       IN /\ Commit(R.mgr)
          /\ CommitDet(R.det)
    /\ UNCHANGED <<mounted, effectId, libsLoaded>>
    /\ UNCHANGED <<verVars, violVars, run, regVars>>

\* the user clicks "Retry Camera Access", which WebcamMonitor shows while
\* the hook reports an error
RetryClick ==
    /\ mounted[Detection]
    /\ error[Detection] # NoError
    /\ LET R == retryClick(Cur, CurDet)
       IN /\ Commit(R.mgr)
          /\ CommitDet(R.det)
    /\ UNCHANGED <<mounted, effectId, libsLoaded>>
    /\ UNCHANGED <<verVars, violVars, run, regVars>>

\* getUserMedia resolves for the pending call p; the awaiting caller goes on
\* (startMonitoring runs setupFaceMesh)
GumResolve(p) ==
    /\ LET R == gumResolveTurn(Cur, CurDet, p, mounted[Detection])
       IN /\ Commit(R.mgr)
          /\ CommitDet(R.det)
    /\ UNCHANGED <<mounted, effectId, libsLoaded>>
    /\ UNCHANGED <<verVars, violVars, run, regVars>>

\* getUserMedia rejects for the pending call p
GumReject(p, name) ==
    /\ LET R == gumRejectTurn(Cur, CurDet, p, name, mounted[Detection])
       IN /\ Commit(R.mgr)
          /\ CommitDet(R.det)
    /\ UNCHANGED <<mounted, effectId, libsLoaded>>
    /\ UNCHANGED <<verVars, violVars, run, regVars>>

\* cameraRef.current.start() settles for one awaiting setupFaceMesh call:
\* setIsMonitoring(true) after the await, setIsMonitoring(false) in the catch
CameraStartSettle(ok) ==
    /\ startsPending > 0
    /\ LET R == cameraStartTurn(Cur, CurDet, ok, mounted[Detection])
       IN /\ Commit(R.mgr)
          /\ CommitDet(R.det)
    /\ UNCHANGED <<mounted, effectId, libsLoaded>>
    /\ UNCHANGED <<verVars, violVars, run, regVars>>

\* the Camera utility delivers a frame tick
OnFrame(ready) ==
    /\ mounted[Detection]
    /\ cameraRef \in {"starting", "running"}
    /\ CommitDet(onFrame(CurDet, mounted[Detection], ready))
    /\ UNCHANGED <<mgrVars, hookVars, libsLoaded>>
    /\ UNCHANGED <<verVars, violVars, run, regVars>>

\* a faceMesh.send() of this session settles
SendSettle ==
    /\ inFlight > 0
    /\ CommitDet(sendSettled(CurDet))
    /\ UNCHANGED <<mgrVars, hookVars, libsLoaded>>
    /\ UNCHANGED <<verVars, violVars, run, regVars>>

\* the MediaPipe scripts of the page finish loading
LoadLibs ==
    /\ ~libsLoaded
    /\ libsLoaded' = TRUE
    /\ UNCHANGED <<mgrVars, hookVars, detVars>>
    /\ UNCHANGED <<verVars, violVars, run, regVars>>

Next ==
    \/ \E h \in Consumers : Mount(h)
    \/ \E h \in Consumers : Unmount(h)
    \/ \E h \in Consumers : RequestCameraCall(h)
    \/ \E h \in Consumers : ReleaseCameraCall(h)
    \/ RetryClick
    \/ \E p \in pending : GumResolve(p)
    \/ \E p \in pending, name \in ErrNames : GumReject(p, name)
    \/ \E ok \in BOOLEAN : CameraStartSettle(ok)
    \/ \E ready \in BOOLEAN : OnFrame(ready)
    \/ SendSettle
    \/ LoadLibs

\* The camera manager with all its consumers.  Its two parts below are small enough to be explored
\* exhaustively: SpecCam (the manager and all its consumers) and SpecDet (the
\* monitor with its frame loop).
Spec == Init /\ [][Next]_vars

\* The camera manager and its three consumers, with the detector libraries
\* never loaded: setupFaceMesh returns at its guard, so the frame loop never
\* starts; no manager call depends on it.
InitCam == Init /\ ~libsLoaded

NextCam ==
    \/ \E h \in Consumers : Mount(h)
    \/ \E h \in Consumers : Unmount(h)
    \/ \E h \in Consumers : RequestCameraCall(h)
    \/ \E h \in Consumers : ReleaseCameraCall(h)
    \/ RetryClick
    \/ \E p \in pending : GumResolve(p)
    \/ \E p \in pending, name \in CamErrNames : GumReject(p, name)

SpecCam == InitCam /\ [][NextCam]_vars

\* The monitor alone: WebcamMonitor is the only camera consumer mounted.
NextDet ==
    \/ Mount(Detection)
    \/ Unmount(Detection)
    \/ RequestCameraCall(Detection)
    \/ ReleaseCameraCall(Detection)
    \/ RetryClick
    \/ \E p \in pending : GumResolve(p)
    \/ \E p \in pending, name \in CamErrNames : GumReject(p, name)
    \/ \E ok \in BOOLEAN : CameraStartSettle(ok)
    \/ \E ready \in BOOLEAN : OnFrame(ready)
    \/ SendSettle
    \/ LoadLibs

SpecDet == Init /\ [][NextDet]_vars

\* ------------------------------------------------- FaceVerification
\* show becomes true: the cleanup of the previous run of the [show] effect,
\* then the effect calls initializeCamera
VerShow ==
    /\ ~verShow
    /\ CommitVer(initializeCamera([verCleanup(CurVer) EXCEPT !.show = TRUE]))
    /\ UNCHANGED <<camVars, violVars, run, regVars>>

\* show becomes false (or the modal unmounts): the effect's cleanup
VerHide ==
    /\ verShow
    /\ CommitVer([verCleanup(CurVer) EXCEPT !.show = FALSE])
    /\ UNCHANGED <<camVars, violVars, run, regVars>>

\* the Retry button of the error alert
VerRetry ==
    /\ verShow
    /\ verErrorMessage # NoError
    /\ CommitVer(handleRetry(CurVer))
    /\ UNCHANGED <<camVars, violVars, run, regVars>>

\* a getUserMedia call of the modal resolves
VerGumResolve(p) ==
    /\ CommitVer(verGumResolved(CurVer, p))
    /\ UNCHANGED <<camVars, violVars, run, regVars>>

\* a getUserMedia call of the modal rejects
VerGumReject(p, name) ==
    /\ CommitVer(verGumRejected(CurVer, p, name))
    /\ UNCHANGED <<camVars, violVars, run, regVars>>

\* The monitor and the verification modal on one page.
NextVer ==
    \/ Mount(Detection)
    \/ Unmount(Detection)
    \/ \E p \in pending : GumResolve(p)
    \/ \E p \in pending, name \in CamErrNames : GumReject(p, name)
    \/ VerShow
    \/ VerHide
    \/ VerRetry
    \/ \E p \in verPending : VerGumResolve(p)
    \/ \E p \in verPending, name \in CamErrNames : VerGumReject(p, name)

SpecVer == InitCam /\ [][NextVer]_vars

\* a click on the Verify button
VerifyClick ==
    /\ ~verVerified
    /\ ~verifyDisabled(CurVer)
    /\ verPhase = "idle"
    /\ CommitVer(captureAndVerify(CurVer))
    /\ UNCHANGED <<camVars, violVars, run, regVars>>

\* the delay and the capture of the running captureAndVerify settle
CaptureSettle(ok) ==
    /\ verPhase = "capture"
    /\ CommitVer(captured(CurVer, ok))
    /\ UNCHANGED <<camVars, violVars, run, regVars>>

\* the verifyFaceIdentity call of the running captureAndVerify settles
RecognitionSettle(res) ==
    /\ verPhase = "request"
    /\ CommitVer(responded(CurVer, verifyFaceIdentity(res, ExpectedName)))
    /\ UNCHANGED <<camVars, violVars, run, regVars>>

\* a success timer fires and calls onVerificationSuccess
SuccessTimerFire ==
    /\ verTimers > 0
    /\ CommitVer(successTimer(CurVer))
    /\ UNCHANGED <<camVars, violVars, run, regVars>>

\* The verification modal on its own: camera and verification runs.
NextModal ==
    \/ VerShow
    \/ VerHide
    \/ VerRetry
    \/ \E p \in verPending : VerGumResolve(p)
    \/ \E p \in verPending, name \in CamErrNames : VerGumReject(p, name)
    \/ VerifyClick
    \/ \E ok \in BOOLEAN : CaptureSettle(ok)
    \/ \E res \in HttpResults : RecognitionSettle(res)
    \/ SuccessTimerFire

SpecModal == InitCam /\ [][NextModal]_vars

\* ------------------------------------------------ useFaceRegistration
\* the capture control calls captureImage
CaptureImageCall(ready) ==
    /\ mounted[Registration]
    /\ CommitReg(captureImage(CurReg, stream[Registration], ready))
    /\ UNCHANGED <<camVars, verVars, violVars, run>>

\* the delay and the capture of one suspended captureImage call settle
CaptureDone(ok) ==
    /\ capturesInFlight > 0
    /\ CommitReg(captureDone(CurReg, ok))
    /\ UNCHANGED <<camVars, verVars, violVars, run>>

\* the reset control calls resetCapture
ResetCaptureCall ==
    /\ mounted[Registration]
    /\ CommitReg(resetCapture(CurReg))
    /\ UNCHANGED <<camVars, verVars, violVars, run>>

\* the submit control calls submitRegistration
SubmitRegistrationCall(hasUser) ==
    /\ mounted[Registration]
    /\ CommitReg(submitRegistration(CurReg, hasUser))
    /\ UNCHANGED <<camVars, verVars, violVars, run>>

\* a registration request settles; status 200 releases the camera
RegisterSettle(outcome) ==
    /\ postsInFlight > 0
    /\ CommitReg(registered(CurReg, outcome))
    /\ IF outcome = "200"
       THEN /\ LET R == rendered(Cur, CurDet,
                                 [releaseCamera(Cur, Registration)
                                     EXCEPT !.pending = MarkReleased(@, Registration)],
                                 CurDet, mounted[Detection])
               IN /\ Commit(R.mgr)
                  /\ CommitDet(R.det)
            /\ UNCHANGED <<mounted, effectId, libsLoaded>>
       ELSE UNCHANGED camVars
    /\ UNCHANGED <<verVars, violVars, run>>

\* The face-registration page: the hook instance, its camera and its controls.
NextReg ==
    \/ Mount(Registration)
    \/ Unmount(Registration)
    \/ \E p \in pending : GumResolve(p)
    \/ \E p \in pending, name \in CamErrNames : GumReject(p, name)
    \/ \E ready \in BOOLEAN : CaptureImageCall(ready)
    \/ \E ok \in BOOLEAN : CaptureDone(ok)
    \/ ResetCaptureCall
    \/ \E hasUser \in BOOLEAN : SubmitRegistrationCall(hasUser)
    \/ \E outcome \in PostOutcomes : RegisterSettle(outcome)

SpecReg == InitCam /\ [][NextReg]_vars

\* ------------------------------------------------ violation tracking
\* a monitoring session starts with its options; the track states are created
StartSession(o) ==
    /\ ~session.active
    /\ CommitViol([CurViol EXCEPT !.session = o])
    /\ UNCHANGED <<camVars, verVars, run, regVars>>

\* the frame sampler hands a FrameObservation to the heuristics engine
Frame(obs, gap) ==
    /\ session.active
    /\ ~flowError
    /\ CommitViol(frame(CurViol, obs, gap))
    /\ UNCHANGED <<camVars, verVars, run, regVars>>

\* the host calls a tracking operation
TrackCall(kind) ==
    /\ session.active
    /\ ~flowError
    /\ occurrenceCount[kind] < MaxOccurrences
    /\ CommitViol(trackActivity(CurViol, kind))
    /\ UNCHANGED <<camVars, verVars, run, regVars>>

ResetKind(kind) ==
    /\ session.active
    /\ CommitViol(resetActivityCounter(CurViol, kind))
    /\ UNCHANGED <<camVars, verVars, run, regVars>>

ResetAll ==
    /\ session.active
    /\ CommitViol(resetAllCounters(CurViol))
    /\ UNCHANGED <<camVars, verVars, run, regVars>>

\* the outbound call of a report settles
DeliverySettle(ok) ==
    /\ reportsInFlight > 0
    /\ CommitViol(reportSettled(CurViol, submitWebcamMonitorEvent(ok)))
    /\ UNCHANGED <<camVars, verVars, run, regVars>>

\* The heuristics engine on the frames of one session.
NextEngine ==
    \/ \E o \in SessionOptions : StartSession(o)
    \/ \E obs \in Observations, gap \in FrameGapsMs : Frame(obs, gap)
    \/ \E k \in Kinds : ResetKind(k)
    \/ ResetAll
    \/ \E ok \in BOOLEAN : DeliverySettle(ok)

SpecEngine == InitCam /\ [][NextEngine]_vars

\* The tracking operations of one session; a frame arrives once per cooldown
\* window.
NextTrack ==
    \/ \E o \in SessionOptions : StartSession(o)
    \/ \E k \in Kinds : TrackCall(k)
    \/ \E k \in Kinds : ResetKind(k)
    \/ ResetAll
    \/ \E ok \in BOOLEAN : DeliverySettle(ok)
    \/ \E obs \in Observations : Frame(obs, COOLDOWN_PERIOD_MS)

SpecTrack == InitCam /\ [][NextTrack]_vars

\* a condition starts to hold, seen on frames gap ms apart
StartRun(kind, gap) ==
    /\ ~run.started
    /\ run' = startRun(kind, gap)
    /\ UNCHANGED <<camVars, verVars, violVars, regVars>>

\* the next frame of the run still shows the condition
HoldFrame(obs) ==
    /\ run.started
    /\ run.elapsedMs + run.gap <= RunTotalMs
    /\ conditionActive(run.kind, obs)
    /\ run' = holdFrame(run, obs)
    /\ UNCHANGED <<camVars, verVars, violVars, regVars>>

\* One violation kind's state machine under a condition that never clears.
NextRun ==
    \/ \E kind \in FrameKinds, gap \in RunGapsMs : StartRun(kind, gap)
    \/ \E obs \in Observations : HoldFrame(obs)

SpecRun == InitCam /\ [][NextRun]_vars

\* ================================================================ claims
\* what a manager call left of the process-wide lease and the streams
Lease(S) == <<S.currentConsumer, S.streamInstance, S.stopCount>>

\* the manager state without what the last call returned
StateOf(S) ==
    <<S.currentConsumer, S.streamInstance, S.gumCalls, S.pending, S.acquired,
      S.stopCount, S.isLoading, S.error, S.stream, S.consumerIdRef>>

\* h holds the lease: the state a completed requestCamera(h) that returned a
\* stream leaves behind, until h releases it
HoldsLease(h) == currentConsumer = h /\ streamInstance # NoStream

\* C1: while consumer A holds the lease, requestCamera(B) for any other
\* consumer B returns null and leaves the lease as it is: the owner is A, the
\* leased stream is the same, none of its tracks is stopped, and no hardware
\* request is issued.
C1_OtherConsumerRejected ==
    \A A \in Consumers, B \in Consumers :
        (A # B /\ HoldsLease(A)) =>
            LET R == requestCamera(Cur, B, "caller", NoStream) IN
            /\ R.ret = Ret("rejected", NoStream)
            /\ Lease(R) = Lease(Cur)
            /\ R.stopCount[streamInstance] = 0
            /\ R.gumCalls = gumCalls

\* C1 witness: B was rejected (it shows the camera-in-use error) while A
\* holds a live lease.
C1_Witness ==
    \E A \in Consumers, B \in Consumers :
        /\ A # B
        /\ HoldsLease(A)
        /\ streamInstance \in LiveStreams
        /\ mounted[B]
        /\ error[B] = InUseError

\* C2: at most one lease exists at any time: never more than one acquired
\* stream whose tracks are live, whatever the interleaving of requests,
\* releases and pending acquisitions.
C2_AtMostOneLiveStream ==
    Cardinality(LiveStreams) <= 1

\* C3: when a releaseCamera(A) has run while a requestCamera(A) awaited the
\* hardware, then at the step in which that acquisition settles, either A's
\* instance is still alive, holds the lease and sees the stream, or no lease
\* exists and the acquired stream (if any) has been stopped.
C3_NoDanglingStreamAfterRelease ==
    [][\A p \in pending :
          (p.released /\ ~(\E q \in pending' : q.call = p.call)) =>
              \/ /\ p.live
                 /\ currentConsumer' = p.hook
                 /\ streamInstance' = p.call
                 /\ stream'[p.hook] = p.call
              \/ /\ currentConsumer' = NoConsumer
                 /\ streamInstance' = NoStream
                 /\ (p.call \in acquired' => stopCount'[p.call] >= 1)]_vars

\* C4: the teardown of the monitor or of the registration flow invokes
\* releaseCamera for that consumer exactly once, and once it has run a
\* request from a different consumer is not turned away on its account,
\* whatever state the consumer was in at teardown.
C4_TeardownReleasesOnceAndFrees ==
    \A h \in {Detection, Registration} :
        /\ mounted[h] => teardown(Cur, CurDet, h, effectId[h]).mgr.releases = 1
        /\ ~mounted[h] =>
               \A B \in Consumers \ {h} :
                   (mounted[B] /\ currentConsumer \in {NoConsumer, h}) =>
                       requestCamera(Cur, B, "caller", NoStream).ret.outcome # "rejected"

\* C5: when a component that holds the lease through the manager hook and
\* has no release of its own unmounts, the manager's unmount cleanup releases
\* the lease: afterwards the consumer is not the owner and the stream's
\* tracks are stopped.
C5_ManagerCleanupReleases ==
    [][\A h \in Consumers :
          (~IsConsumerWithCleanup(h) /\ mounted[h] /\ ~mounted'[h] /\ HoldsLease(h)) =>
              /\ currentConsumer' # h
              /\ stopCount'[streamInstance] >= 1]_vars

\* C6: requestCamera(A) twice in a row with no release in between returns
\* the same stream both times and the second call issues no hardware request,
\* whether the first call got the stream from the hardware (its acquisition
\* resolves) or from the lease A already held.
C6_RepeatedRequestSameStream ==
    /\ \A p \in pending :
           LET R1 == gumResolved(Cur, p)
               R2 == requestCamera(R1, p.hook, "caller", NoStream) IN
           /\ R1.ret = Ret("granted", p.call)
           /\ R2.ret = Ret("same", p.call)
           /\ R2.gumCalls = gumCalls
           /\ R2.pending = R1.pending
    /\ \A A \in Consumers :
           LET R1 == requestCamera(Cur, A, "caller", NoStream)
               R2 == requestCamera(R1, A, "caller", NoStream) IN
           R1.ret.outcome = "same" =>
               /\ R2.ret = R1.ret
               /\ R2.gumCalls = gumCalls

\* C6 witness: A asked, the one hardware acquisition resolved, and A holds
\* and sees that stream.
C6_Witness ==
    \E A \in Consumers :
        /\ mounted[A]
        /\ HoldsLease(A)
        /\ stream[A] = streamInstance
        /\ consumerIdRef[A] = A
        /\ gumCalls = 1
        /\ acquired = {streamInstance}

\* C7: releaseCamera by the lease holder stops the tracks of the leased
\* stream, clears the lease (no owner, no stream) and the holder's error
\* state; the next requestCamera of any consumer then starts a hardware
\* acquisition instead of being rejected.
C7_OwnerReleaseClearsLease ==
    \A h \in Consumers :
        (mounted[h] /\ HoldsLease(h)) =>
            LET R == releaseCamera(Cur, h) IN
            /\ R.ret.outcome = "released"
            /\ R.stopCount[streamInstance] = stopCount[streamInstance] + 1
            /\ R.stopCount[streamInstance] >= 1
            /\ R.currentConsumer = NoConsumer
            /\ R.streamInstance = NoStream
            /\ R.error[h] = NoError
            /\ \A B \in Consumers :
                   LET Q == requestCamera(R, B, "caller", NoStream) IN
                   /\ Q.ret.outcome = "pending"
                   /\ Q.gumCalls = gumCalls + 1

\* C7 witness: a stream was released by its holder (stopped once, lease
\* clear) and a later request is awaiting a new acquisition.
C7_Witness ==
    \E s \in acquired :
        /\ stopCount[s] = 1
        /\ currentConsumer = NoConsumer
        /\ streamInstance = NoStream
        /\ \E p \in pending : p.call > s /\ p.live

\* C8 as stated: releaseCamera(X) by a consumer that does not hold the lease
\* leaves the lease as it is and resets X's local stream, loading and error
\* view; a second call changes nothing more.
C8_NonOwnerReleaseResetsView ==
    \A X \in Consumers :
        (mounted[X] /\ ~HoldsLease(X)) =>
            LET R == releaseCamera(Cur, X) IN
            /\ Lease(R) = Lease(Cur)
            /\ R.stream[X] = NoStream
            /\ R.isLoading[X] = FALSE
            /\ R.error[X] = NoError
            /\ StateOf(releaseCamera(R, X)) = StateOf(R)

\* C8 amended: releaseCamera(X) by a consumer that does not hold the lease
\* leaves the lease as it is (same owner, same stream, no track stopped);
\* afterwards X's loading and error view are reset, and its stream view is
\* reset if this hook instance has requested the camera
\* (consumerIdRef.current = X).  Calling releaseCamera(X) again, by owner or
\* not, changes nothing more.
C8_NonOwnerReleaseResetsRequester ==
    \A X \in Consumers :
        mounted[X] =>
            LET R == releaseCamera(Cur, X) IN
            /\ ~HoldsLease(X) =>
                   /\ R.ret.outcome = "noop"
                   /\ Lease(R) = Lease(Cur)
                   /\ R.isLoading[X] = FALSE
                   /\ R.error[X] = NoError
                   /\ (consumerIdRef[X] = X => R.stream[X] = NoStream)
                   /\ (consumerIdRef[X] # X => StateOf(R) = StateOf(Cur))
            /\ StateOf(releaseCamera(R, X)) = StateOf(R)

\* C8 witness: X requested, was rejected because another consumer holds the
\* lease, and its release can reset a view that is not already clear.
C8_Witness ==
    \E X \in Consumers :
        /\ mounted[X]
        /\ consumerIdRef[X] = X
        /\ ~HoldsLease(X)
        /\ currentConsumer \notin {NoConsumer, X}
        /\ streamInstance \in LiveStreams
        /\ error[X] = InUseError

\* C9: every stream the hardware handed out is either the leased stream with
\* live tracks, or has left the lease state with its tracks stopped exactly
\* once.
C9_TracksStoppedExactlyOnce ==
    \A s \in acquired :
        \/ s = streamInstance /\ stopCount[s] = 0
        \/ s # streamInstance /\ stopCount[s] = 1

\* C10: at most one inference is in flight in a monitoring session, the
\* in-flight marker is set exactly while one is, and a tick that arrives
\* while one is in flight changes nothing but the record of the tick: it is
\* dropped, not queued.
C10_AtMostOneInferenceInFlight ==
    /\ inFlight <= 1
    /\ isProcessingRef <=> (inFlight = 1)
    /\ inFlight = 1 =>
           \A ready \in BOOLEAN :
               onFrame(CurDet, mounted[Detection], ready)
                   = [CurDet EXCEPT !.lastTick = "skipped"]

\* C10 witness: a tick was skipped while an inference is in flight, with the
\* frame loop set up a second time before the first Camera.start() settled.
C10_Witness ==
    /\ inFlight = 1
    /\ lastTick = "skipped"
    /\ startsPending = 2

\* no frame loop runs or is being started, and monitoring is off
NoFrameLoop(D) == D.cameraRef \notin {"starting", "running"} /\ ~D.isMonitoring

\* C11 as stated: when startMonitoring has acquired the camera and its
\* detector setup then fails (setupFaceMesh returns at its guard in the turn
\* in which getUserMedia resolved, or Camera.start() throws) and the turn
\* ends with no frame loop set up, the monitor holds no lease and the tracks
\* of the stream it acquired are stopped.
C11_SetupFailureRollsBack ==
    /\ \A p \in pending :
           (p.live /\ p.hook = Detection /\ p.caller = "startMonitoring"
                   /\ setupGuardFails(p.cs, p.live)) =>
               LET R == gumResolveTurn(Cur, CurDet, p, mounted[Detection]) IN
               NoFrameLoop(R.det) =>
                   /\ ~(R.mgr.currentConsumer = Detection
                           /\ R.mgr.streamInstance # NoStream)
                   /\ R.mgr.stopCount[p.call] >= 1
    /\ (mounted[Detection] /\ startsPending > 0) =>
           LET R == cameraStartTurn(Cur, CurDet, FALSE, TRUE) IN
           NoFrameLoop(R.det) =>
               ~(R.mgr.currentConsumer = Detection /\ R.mgr.streamInstance # NoStream)

\* C12: the teardown of a mounted monitor stops the frame loop before any of
\* its statements releases the lease, it does call releaseCamera, and once it
\* has run nothing submits an inference any more: the Camera is stopped, a
\* tick that still arrives finds no video element and sends nothing, and
\* neither a getUserMedia nor a Camera.start() that was pending at unmount
\* sets up a frame loop when it settles.
C12_TeardownStopsLoopBeforeRelease ==
    mounted[Detection] =>
        LET id == effectId[Detection]
            steps == teardownSteps(Detection, id)
            T == teardown(Cur, CurDet, Detection, id)
        IN /\ \A k \in 0..Len(steps) :
                  LET Rk == teardownRun([mgr |-> Cur, det |-> CurDet], Detection, id,
                                        SubSeq(steps, 1, k)) IN
                  Rk.mgr.releases > 0 => Rk.det.cameraRef = "none"
           /\ T.mgr.releases > 0
           /\ T.det.cameraRef = "none"
           /\ \A ready \in BOOLEAN :
                  onFrame(T.det, FALSE, ready) = [T.det EXCEPT !.lastTick = "skipped"]
           /\ \A p \in Orphan(T.mgr.pending, Detection) :
                  p.hook = Detection => setupFaceMesh(T.det, p.cs, p.live) = T.det
           /\ T.det.startsPending > 0 =>
                  \A ok \in BOOLEAN : cameraStartSettled(T.det, ok).cameraRef = "none"

\* C12 witness: a monitoring session with the frame loop running on the
\* leased stream, an inference in flight and an acquisition still pending,
\* about to be torn down.
C12_Witness ==
    /\ mounted[Detection]
    /\ isMonitoring
    /\ cameraRef = "running"
    /\ HoldsLease(Detection)
    /\ inFlight = 1
    /\ PendingOf(Detection) # {}

\* C13 as stated: once every requestCamera and releaseCamera call has
\* completed, the stream seen by every mounted hook instance is the
\* process-wide current stream (null after a release).
C13_StreamSeenByEveryInstance ==
    pending = {} =>
        \A h \in Consumers : mounted[h] => stream[h] = streamInstance

\* C14: a requestCamera(B) made while another consumer is the owner returns
\* null at once: no hardware request is issued or left pending, the lease is
\* untouched, and B's error state is the camera-in-use error, which no
\* hardware failure produces.
C14_RejectedAtOnceWithInUseError ==
    \A B \in Consumers :
        (mounted[B] /\ currentConsumer \notin {NoConsumer, B}) =>
            LET R == requestCamera(Cur, B, "caller", NoStream) IN
            /\ R.ret = Ret("rejected", NoStream)
            /\ R.gumCalls = gumCalls
            /\ R.pending = pending
            /\ Lease(R) = Lease(Cur)
            /\ R.error[B] = InUseError
            /\ InUseError \notin {ErrorMessage(n) : n \in ErrNames}

\* C14 witness: B asked once, was turned away at once (nothing pending, not
\* loading, no stream) and shows the camera-in-use error, while the owner's
\* acquisition is the only hardware request made.
C14_Witness ==
    \E B \in Consumers :
        /\ mounted[B]
        /\ consumerIdRef[B] = B
        /\ currentConsumer \notin {NoConsumer, B}
        /\ error[B] = InUseError
        /\ PendingOf(B) = {}
        /\ ~isLoading[B]
        /\ stream[B] = NoStream
        /\ gumCalls = 1

\* C15 as stated: when the hardware refuses an acquisition, requestCamera
\* does not give up yet: it does not return null but issues one more
\* getUserMedia call (with the minimal constraint set).
C15_RetriesWithMinimalConstraints ==
    \A p \in pending, name \in ErrNames :
        LET R == gumRejected(Cur, p, name) IN
        /\ R.ret.outcome # "failed"
        /\ R.gumCalls = gumCalls + 1
        /\ \E q \in R.pending : q.hook = p.hook /\ q.call = gumCalls + 1

\* the cause of a hardware refusal, by err.name
CauseOf(name) ==
    CASE name = "NotAllowedError" -> "permission denied"
      [] name = "NotFoundError" -> "no device"
      [] name = "NotReadableError" -> "device busy"
      [] OTHER -> "unknown"

\* C16 as stated: a requestCamera that fails, by a hardware refusal or
\* because another consumer is the owner, returns null and leaves the
\* requester without lease, with isLoading false and with an error that is
\* determined by the cause: refusals of different causes give different
\* errors, and the camera-in-use error is given by the ownership conflict
\* only.
C16_FailureStateAndErrorCategory ==
    /\ \A n1 \in ErrNames, n2 \in ErrNames :
           CauseOf(n1) # CauseOf(n2) => ErrorMessage(n1) # ErrorMessage(n2)
    /\ \A n \in ErrNames : ErrorMessage(n) \notin {InUseError, NoError}
    /\ \A p \in pending, name \in ErrNames :
           p.live =>
               LET R == gumRejected(Cur, p, name) IN
               /\ R.ret = Ret("failed", NoStream)
               /\ ~(R.currentConsumer = p.hook /\ R.streamInstance # NoStream)
               /\ R.isLoading[p.hook] = FALSE
               /\ R.error[p.hook] = ErrorMessage(name)
    /\ \A B \in Consumers :
           (mounted[B] /\ currentConsumer \notin {NoConsumer, B}) =>
               LET R == requestCamera(Cur, B, "caller", NoStream) IN
               /\ R.ret = Ret("rejected", NoStream)
               /\ ~(R.currentConsumer = B /\ R.streamInstance # NoStream)
               /\ R.isLoading[B] = FALSE
               /\ R.error[B] = InUseError

\* the error requestCamera sets when the permission is denied
PermissionDenied == ErrorMessage("NotAllowedError")

C18_NoAttemptWithoutRetry ==
    /\ \A p \in pending, name \in ErrNames :
           (p.live /\ p.hook = Detection) =>
               gumRejectTurn(Cur, CurDet, p, name, mounted[Detection]).attempts = 0
    /\ \A p \in pending :
           (p.live /\ p.hook = Detection /\ p.caller = "startMonitoring"
                   /\ setupGuardFails(p.cs, p.live)) =>
               gumResolveTurn(Cur, CurDet, p, mounted[Detection]).attempts = 0
    /\ (mounted[Detection] /\ startsPending > 0) =>
           cameraStartTurn(Cur, CurDet, FALSE, TRUE).attempts = 0

\* C19 as stated: while the monitor stays mounted, once a detector has been
\* created no step creates another one (no setupFaceMesh gets past its guard
\* again), and a startMonitoring call made while monitoring is active changes
\* nothing.
C19_DetectorInitialisedOncePerSession ==
    [][(mounted[Detection] /\ mounted'[Detection]) =>
           /\ faceMeshRef => startsPending' <= startsPending
           /\ isMonitoring =>
                  startMonitoring(Cur, CurDet) = [mgr |-> Cur, det |-> CurDet]]_vars

\* C20 as stated: when the detector setup of startMonitoring fails and no
\* frame loop is set up, the call has returned false, isMonitoring is false
\* and the monitor shows an error.
C20_SetupFailureSurfacedAsError ==
    /\ \A p \in pending :
           (p.live /\ p.hook = Detection /\ p.caller = "startMonitoring"
                   /\ setupGuardFails(p.cs, p.live)) =>
               LET R == gumResolveTurn(Cur, CurDet, p, mounted[Detection]) IN
               NoFrameLoop(R.det) => R.mgr.error[Detection] # NoError
    /\ (mounted[Detection] /\ startsPending > 0) =>
           LET R == cameraStartTurn(Cur, CurDet, FALSE, TRUE) IN
           /\ ~R.det.isMonitoring
           /\ NoFrameLoop(R.det) => R.mgr.error[Detection] # NoError

\* C21: debounce.  For every frame kind, a frame in INACTIVE sends no report;
\* while the condition has been active for less than the sustained duration
\* the state stays ACCUMULATING and nothing is reported; a frame on which the
\* condition has cleared takes ACCUMULATING back to INACTIVE with no report.
C21_DebounceNoReport ==
    \A obs \in Observations, gap \in FrameGapsMs :
      LET V == frame(CurViol, obs, gap) IN
      \A k \in FrameKinds :
        LET T == trackState[k]
            active == conditionActive(k, obs) IN
        /\ T.state = "INACTIVE" => Count(V.emitted, "report", k) = 0
        /\ (T.state = "ACCUMULATING" /\ active
                /\ T.activeMs + gap < LOOKING_AWAY_DURATION_MS)
              => /\ V.track[k].state = "ACCUMULATING"
                 /\ Count(V.emitted, "report", k) = 0
        /\ (T.state = "ACCUMULATING" /\ ~active)
              => /\ V.track[k].state = "INACTIVE"
                 /\ Count(V.emitted, "report", k) = 0

C21_Witness ==
    \E k \in FrameKinds :
        /\ trackState[k].state = "ACCUMULATING"
        /\ trackState[k].activeMs > 0
        /\ trackState[k].activeMs < LOOKING_AWAY_DURATION_MS

\* C22: a frame that finds the condition active for at least the sustained
\* duration sends exactly one report of the kind and leaves the state in
\* COOLDOWN; no frame sends more than one report of a kind; a report is sent
\* only if the kind's last report is at least a cooldown window old; during
\* the window the state stays COOLDOWN and nothing is reported, whatever the
\* frames show.
C22_OneReportPerCooldownWindow ==
    \A obs \in Observations, gap \in FrameGapsMs :
      LET V == frame(CurViol, obs, gap) IN
      \A k \in FrameKinds :
        LET T == trackState[k]
            active == conditionActive(k, obs) IN
        /\ Count(V.emitted, "report", k) <= 1
        /\ (T.state = "ACCUMULATING" /\ active
                /\ T.activeMs + gap >= LOOKING_AWAY_DURATION_MS)
              => /\ Count(V.emitted, "report", k) = 1
                 /\ V.track[k].state = "COOLDOWN"
        /\ Count(V.emitted, "report", k) = 1
              => T.sinceReportMs + gap >= COOLDOWN_PERIOD_MS
        /\ (T.state = "COOLDOWN" /\ T.sinceReportMs + gap < COOLDOWN_PERIOD_MS)
              => /\ V.track[k].state = "COOLDOWN"
                 /\ Count(V.emitted, "report", k) = 0

C22_Witness ==
    \E k \in FrameKinds :
        /\ Count(emitted, "report", k) = 1
        /\ trackState[k].state = "COOLDOWN"
        /\ trackState[k].sinceReportMs = 0

\* the condition of the run was held for three cooldown windows
RunComplete == run.started /\ run.elapsedMs + run.gap > RunTotalMs

\* C23: a condition held for three cooldown windows, on frames at a fixed
\* interval that divides the sustained duration, is reported
\* floor((total - sustain) / (sustain + cooldown)) + 1 times: the first report
\* after the sustained duration, one more per sustained duration plus cooldown.
C23_ReportsOfHeldCondition ==
    RunComplete =>
        run.reports = ((RunTotalMs - LOOKING_AWAY_DURATION_MS)
                         \div (LOOKING_AWAY_DURATION_MS + COOLDOWN_PERIOD_MS)) + 1

\* C23 as stated: the number of reports is floor(total / (sustain + cooldown))
C23_ReportsAreFloorOfTotal ==
    RunComplete =>
        run.reports = RunTotalMs \div (LOOKING_AWAY_DURATION_MS + COOLDOWN_PERIOD_MS)

C23_Witness == RunComplete /\ run.reports = 3

\* C24: with a kind's threshold at 2, the tracking operation escalates
\* (onExceedThreshold) exactly once when it counts the second occurrence, and
\* not when it counts the first, the third or a later one; what an operation
\* sent out holds an escalation only if the count has just reached the
\* threshold.
C24_EscalationOncePerCrossing ==
    \A k \in Kinds :
        /\ Count(emitted, "exceed", k) <= 1
        /\ Count(emitted, "exceed", k) = 1
              => occurrenceCount[k] = session.thresholds[k]
        /\ (session.active /\ session.thresholds[k] = 2)
              => Count(trackActivity(CurViol, k).emitted, "exceed", k)
                    = IF occurrenceCount[k] = 1 THEN 1 ELSE 0

C24_Witness ==
    /\ session.thresholds[TabSwitching] = 2
    /\ occurrenceCount[TabSwitching] = 3
    /\ Count(emitted, "log", TabSwitching) = 1
    /\ Count(emitted, "exceed", TabSwitching) = 0

\* C25: resetActivityCounter(k) sets the count of k to zero and its state
\* machine to INACTIVE, leaves the count and the track state of every other
\* kind as they were, and afterwards the tracking operation of k escalates
\* exactly when it has been called threshold times again.
C25_ResetOneKindOnly ==
    \A k \in Kinds :
        LET R == resetActivityCounter(CurViol, k) IN
        /\ R.occurrenceCount[k] = 0
        /\ k \in FrameKinds => R.track[k] = FreshTrack
        /\ \A j \in Kinds \ {k} : R.occurrenceCount[j] = occurrenceCount[j]
        /\ \A j \in FrameKinds \ {k} : R.track[j] = trackState[j]
        /\ session.active =>
              \A n \in 1..session.thresholds[k] :
                  Count(trackTimes(R, k, n).emitted, "exceed", k)
                      = IF n = session.thresholds[k] THEN 1 ELSE 0

C25_Witness ==
    \E k \in Kinds, j \in Kinds, f \in FrameKinds :
        /\ j # k /\ f # k
        /\ occurrenceCount[k] >= session.thresholds[k]
        /\ session.active
        /\ occurrenceCount[j] > 0
        /\ trackState[f].state # "INACTIVE"

\* C26: resetAllCounters() sets every count to zero and every state machine to
\* INACTIVE; after it no kind escalates within fewer track calls than its
\* threshold.
C26_ResetAllZeroesEveryKind ==
    LET R == resetAllCounters(CurViol) IN
    /\ \A k \in Kinds : R.occurrenceCount[k] = 0
    /\ \A k \in FrameKinds : R.track[k].state = "INACTIVE"
    /\ session.active =>
          \A k \in Kinds : \A n \in 0..(session.thresholds[k] - 1) :
              Count(trackTimes(R, k, n).emitted, "exceed", k) = 0

C26_Witness ==
    /\ session.active
    /\ \A k \in Kinds : occurrenceCount[k] > 0
    /\ \E k \in Kinds : occurrenceCount[k] >= session.thresholds[k]
    /\ \E f \in FrameKinds : trackState[f].state # "INACTIVE"

\* C27: no error of the reporter reaches its caller.  When the outbound call
\* of a report rejects, the tracking state is what it was, the session goes
\* on, and a frame that finds a condition sustained still sends its report.
C27_DeliveryFailureSwallowed ==
    /\ ~flowError
    /\ reportsInFlight > 0 =>
          LET V == reportSettled(CurViol, submitWebcamMonitorEvent(FALSE)) IN
          /\ ~V.flowError
          /\ V.session = session
          /\ V.track = trackState
          /\ V.occurrenceCount = occurrenceCount
          /\ \A obs \in Observations, gap \in FrameGapsMs :
                LET W == frame(V, obs, gap) IN
                \A k \in FrameKinds :
                    (V.track[k].state = "ACCUMULATING" /\ conditionActive(k, obs)
                        /\ V.track[k].activeMs + gap >= LOOKING_AWAY_DURATION_MS)
                      => Count(W.emitted, "report", k) = 1

C27_Witness ==
    /\ Count(emitted, "rejected", "") = 1
    /\ session.active
    /\ \E k \in FrameKinds : trackState[k].state = "ACCUMULATING"

\* C28: the frame that confirms a violation calls the host callback once with
\* its kind, in the same turn as the report is sent and before the outbound
\* call has settled; a frame that confirms nothing calls nothing, and the
\* settling of the outbound call, with either outcome, calls nothing.
C28_HostCallbackOncePerConfirmation ==
    /\ \A k \in FrameKinds : Count(emitted, "callback", k) = Count(emitted, "report", k)
    /\ \A obs \in Observations, gap \in FrameGapsMs :
          LET V == frame(CurViol, obs, gap) IN
          \A k \in FrameKinds :
              Count(V.emitted, "callback", k)
                  = IF engineStep(trackState[k], conditionActive(k, obs), gap).confirmed
                    THEN 1 ELSE 0
    /\ \A ok \in BOOLEAN :
          LET V == reportSettled(CurViol, submitWebcamMonitorEvent(ok)) IN
          \A k \in FrameKinds : Count(V.emitted, "callback", k) = 0

C28_Witness ==
    \E k \in FrameKinds :
        /\ Count(emitted, "callback", k) = 1
        /\ reportsInFlight > 0

\* the log records among the events
LogsOf(events) == SelectSeq(events, LAMBDA e : e.ev = "log")

\* C29: a tracking operation sends exactly one log record; its type is the
\* operation's kind, its attemptId and assessmentId are the session's.
C29_TrackCallLogsKindAndSession ==
    /\ \A i \in 1..Len(emitted) :
          emitted[i].ev = "log" =>
              /\ emitted[i].attemptId = session.attemptId
              /\ emitted[i].assessmentId = session.assessmentId
    /\ session.active =>
          \A k \in Kinds :
              LET logs == LogsOf(trackActivity(CurViol, k).emitted) IN
              /\ Len(logs) = 1
              /\ logs[1].kind = k
              /\ logs[1].attemptId = session.attemptId
              /\ logs[1].assessmentId = session.assessmentId

C29_Witness ==
    \E k \in FrameKinds :
        /\ Count(emitted, "log", k) = 1
        /\ session.attemptId = "attempt-2"

\* C30: while a consumer holds the manager's lease on a live stream, the
\* verification modal holds no live stream of its own.
C30_VerificationOnlyThroughManager ==
    ~(/\ currentConsumer # NoConsumer
      /\ streamInstance \in LiveStreams
      /\ VerLive # {})

\* C31: the in-flight marker is set only while an inference is in flight.
\* When the inference in flight settles, by resolving or by throwing, the
\* marker is cleared, and the next tick with a ready video frame submits a
\* new inference and sets the marker again.
C31_FailedInferenceDoesNotStall ==
    /\ isProcessingRef => inFlight > 0
    /\ inFlight > 0 =>
          LET D == sendSettled(CurDet)
              N == onFrame(D, mounted[Detection], TRUE) IN
          /\ mounted[Detection]
          /\ ~D.isProcessingRef
          /\ N.lastTick = "sent"
          /\ N.isProcessingRef

C31_Witness ==
    /\ lastTick = "sent"
    /\ ~isProcessingRef
    /\ inFlight = 0
    /\ cameraRef = "running"

\* C32: when setupFaceMesh runs with a camera stream and a video element but
\* without the MediaPipe globals, it goes on to load the scripts instead of
\* returning false.
C32_SetupLoadsMissingLibraries ==
    (mounted[Detection] /\ stream[Detection] # NoStream /\ ~libsLoaded) =>
        /\ lazyLoadReached(stream[Detection], TRUE)
        /\ ~setupGuardFails(stream[Detection], TRUE)

\* C33: when the pending acquisition of a consumer rejects while another
\* consumer holds the lease on a live stream, the lease is left as it is:
\* same owner, same stream, no track stopped.
C33_RejectionLeavesOthersLease ==
    \A p \in pending, name \in ErrNames :
        (currentConsumer # NoConsumer /\ currentConsumer # p.hook
                /\ streamInstance \in LiveStreams) =>
            Lease(gumRejected(Cur, p, name)) = Lease(Cur)

\* C34: a requestCamera of a consumer whose earlier call still awaits the
\* hardware issues no getUserMedia call of its own.
C34_OverlappingRequestsAcquireOnce ==
    \A h \in Consumers :
        (mounted[h] /\ \E p \in PendingOf(h) : p.live) =>
            requestCamera(Cur, h, "caller", NoStream).gumCalls = gumCalls

\* C35: the owner and the stream of the lease are set together and cleared
\* together, and a requestCamera that goes on to the hardware finds no stream
\* left to stop.
C35_OwnerAndStreamTogether ==
    /\ (currentConsumer = NoConsumer) <=> (streamInstance = NoStream)
    /\ \A h \in Consumers :
          requestCamera(Cur, h, "caller", NoStream).ret.outcome = "pending"
              => streamInstance = NoStream

\* C35 witness: a rejection cleared a lease that had been granted
C35_Witness ==
    /\ currentConsumer = NoConsumer
    /\ streamInstance = NoStream
    /\ acquired # {}
    /\ \E h \in Consumers : error[h] = ErrorMessage("NotAllowedError")

\* C36: while isMonitoring is true the monitor holds the lease and the tracks
\* of the leased stream are live.
C36_MonitoringHoldsLiveLease ==
    isMonitoring =>
        /\ currentConsumer = Detection
        /\ streamInstance \in LiveStreams

\* C37: the modal holds at most one live stream, and while it is closed no
\* stream it acquired is live.
C37_ModalStreamsStopped ==
    /\ Cardinality(VerLive) <= 1
    /\ ~verShow => VerLive = {}

\* C38: when no captureAndVerify run is in progress, isCapturing and
\* isVerifying are both false.
C38_BusyFlagsClearAfterRun ==
    verPhase = "idle" => (~verIsCapturing /\ ~verIsVerifying)

\* the names that equal the expected user name when case is ignored
SameAsExpected == {"Alice", "alice", "ALICE"}

\* C39: a settled recognition request schedules onVerificationSuccess exactly
\* when the response has an id, a confidence of at least 0.7 and the expected
\* name up to case; every other response or a thrown error schedules nothing
\* and sets an error message, and so does an exception of the capture.
C39_SuccessOnlyForAcceptedResponse ==
    /\ verPhase = "request" =>
          \A res \in HttpResults :
              LET F == responded(CurVer, verifyFaceIdentity(res, ExpectedName))
                  accepted == /\ res.ok
                              /\ res.data.id # 0
                              /\ res.data.confidence >= 70
                              /\ res.data.name \in SameAsExpected
              IN /\ accepted <=> F.timers = verTimers + 1
                 /\ accepted => F.verified
                 /\ ~accepted => /\ F.timers = verTimers
                                 /\ F.succeeded = verSucceeded
                                 /\ F.verified = verVerified
                                 /\ F.errorMessage # NoError
    /\ verPhase = "capture" =>
          LET F == captured(CurVer, FALSE) IN
          /\ F.timers = verTimers
          /\ F.succeeded = verSucceeded
          /\ F.errorMessage # NoError
    /\ (verSucceeded \/ verTimers > 0) => verCalls > 0

\* C39 witness: a run was accepted and its timer has called the callback,
\* and a later run is awaiting its response
C39_Witness ==
    /\ verSucceeded
    /\ verPhase = "request"

\* C40: the hook never holds more than 3 captured images, and
\* submitRegistration sends a request only when exactly 3 are held.
C40_NeverMoreThanThreeImages ==
    /\ capturedImages <= REQUIRED_IMAGES
    /\ \A hasUser \in BOOLEAN :
          submitRegistration(CurReg, hasUser).postsInFlight > postsInFlight
              => capturedImages = REQUIRED_IMAGES
    /\ lastPost \in {NoPost, REQUIRED_IMAGES}

====
